---- MODULE Spec2Model ----
(***************************************************************************)
(* Model of utiles_es.py (validated prompt library, CUIT check digit,      *)
(* line classifier, text file reading) and of the name-list script.        *)
(*                                                                         *)
(* A Python str is a sequence of one-character strings.  The character     *)
(* U+00ED (i with acute accent) is written iAcute, its capital IAcute.     *)
(* None is the empty tuple and a present value v is <<v>>.                 *)
(***************************************************************************)
EXTENDS Integers, Sequences, FiniteSets, TLC

VARIABLES
    op,             \* the prompt function being executed
    cancelar,       \* its cancelar argument
    permitir_vacio, \* pedir_texto's permitir_vacio argument
    opciones,       \* pedir_opcion's opciones argument
    minimo,         \* minimo argument (pedir_entero, pedir_float, filtrar)
    maximo,         \* maximo argument
    linea,          \* None, or <<the line input() returned in the last iteration>>
    estado,         \* "pidiendo" (at input()), "leido" (input() returned),
                    \* "devuelto", "cancelado", "error" (another exception left the call)
    resultado,      \* None, or <<the returned value>>
    impreso,        \* what the last iteration printed
    cuit,           \* argument of validar_cuit
    pasoCuit,       \* position in the evaluation of validar_cuit
    norm,           \* normalizar_cuit's result
    dv,             \* _dv_cuit's result
    valido,         \* validar_cuit's result
    lineas,         \* argument of filtrar_enteros_validos
    idx,            \* number of lines the for loop has consumed
    validos,        \* filtrar_enteros_validos: validos
    rechazados,     \* filtrar_enteros_validos: rechazados
    programa,       \* what reads the file: "script" or "leer_lineas_txt"
    fs,             \* state of the file at the path: "ausente", "denegado", "legible"
    contenido,      \* the file's lines, without their line ends
    fallaEn,        \* 0, or the number of the line whose read raises UnicodeDecodeError
    quitar,         \* leer_lineas_txt's strip argument
    pcArchivo,      \* position in the file read
    leidas,         \* number of lines consumed by the script's for loop
    salida,         \* what the file read printed / returned
    excepcion       \* None, or <<the exception that left the file read>>

promptVars == <<op, cancelar, permitir_vacio, opciones, minimo, maximo,
                linea, estado, resultado, impreso>>
cuitVars == <<cuit, pasoCuit, norm, dv, valido>>
filtrarVars == <<lineas, idx, validos, rechazados>>
archivoVars == <<programa, fs, contenido, fallaEn, quitar, pcArchivo, leidas, salida, excepcion>>
vars == <<promptVars, cuitVars, filtrarVars, archivoVars>>

(***************************************************************************)
(* Bounds of the model.                                                    *)
(***************************************************************************)
MaxLen == 3         \* every line over an alphabet up to this length is an input
MaxLim == 1         \* integer limits minimo, maximo range over 0..MaxLim
MaxLineas == 3      \* lines per file / per list handed to the classifier

None == <<>>
Some(v) == <<v>>

SeqsUpTo(S, n) == UNION {[1..k -> S] : k \in 0..n}
MinOf(S) == CHOOSE x \in S : \A y \in S : x <= y
MaxOf(S) == CHOOSE x \in S : \A y \in S : x >= y

(***************************************************************************)
(* Python str methods.                                                     *)
(***************************************************************************)
iAcute == "i_acute"
IAcute == "I_ACUTE"
Minusculas == <<"a", "b", "c", "d", "e", "i", "l", "m", "n", "o", "r", "s", "x", iAcute>>
Mayusculas == <<"A", "B", "C", "D", "E", "I", "L", "M", "N", "O", "R", "S", "X", IAcute>>
\* the characters of [A-Za-z]
Letras == ({Minusculas[k] : k \in 1..Len(Minusculas)} \cup
           {Mayusculas[k] : k \in 1..Len(Mayusculas)}) \ {iAcute, IAcute}
Digitos == {"0", "1", "2", "3", "4", "5", "6", "7", "8", "9"}
Blancos == {" ", "\t", "\n"}

chr_upper(c) ==
    IF \E k \in 1..Len(Minusculas) : Minusculas[k] = c
    THEN Mayusculas[CHOOSE k \in 1..Len(Minusculas) : Minusculas[k] = c]
    ELSE c

chr_lower(c) ==
    IF \E k \in 1..Len(Mayusculas) : Mayusculas[k] = c
    THEN Minusculas[CHOOSE k \in 1..Len(Mayusculas) : Mayusculas[k] = c]
    ELSE c

str_upper(s) == [k \in 1..Len(s) |-> chr_upper(s[k])]
str_lower(s) == [k \in 1..Len(s) |-> chr_lower(s[k])]

\* s.strip(chars): leading and trailing characters of chars removed
strip_chars(s, chars) ==
    LET keep == {k \in 1..Len(s) : s[k] \notin chars}
    IN  IF keep = {} THEN <<>> ELSE SubSeq(s, MinOf(keep), MaxOf(keep))

strip(s) == strip_chars(s, Blancos)

\* s.replace(a, b) for single characters a, b
replace(s, a, b) == [k \in 1..Len(s) |-> IF s[k] = a THEN b ELSE s[k]]

digit_val(c) ==
    CASE c = "0" -> 0 [] c = "1" -> 1 [] c = "2" -> 2 [] c = "3" -> 3
      [] c = "4" -> 4 [] c = "5" -> 5 [] c = "6" -> 6 [] c = "7" -> 7
      [] c = "8" -> 8 [] c = "9" -> 9

RECURSIVE decimal_val(_)
decimal_val(ds) ==
    IF ds = <<>> THEN 0
    ELSE 10 * decimal_val(SubSeq(ds, 1, Len(ds) - 1)) + digit_val(ds[Len(ds)])

es_digito(c) == c \in Digitos

\* digitpart of Python's numeric grammar: digit (["_"] digit)*
es_digitpart(s) ==
    /\ s # <<>>
    /\ \A k \in 1..Len(s) : s[k] \in Digitos \cup {"_"}
    /\ s[1] \in Digitos
    /\ s[Len(s)] \in Digitos
    /\ \A k \in 1..(Len(s) - 1) : ~(s[k] = "_" /\ s[k + 1] = "_")

ValueError == [ok |-> FALSE, val |-> 0]
Parsed(v) == [ok |-> TRUE, val |-> v]

\* int(s): surrounding whitespace, an optional sign, a digitpart
int_py(s) ==
    LET t == strip(s)
        signed == t # <<>> /\ t[1] \in {"+", "-"}
        body == IF signed THEN Tail(t) ELSE t
        mag == decimal_val(SelectSeq(body, es_digito))
    IN  IF ~es_digitpart(body) THEN ValueError
        ELSE IF signed /\ t[1] = "-" THEN Parsed(0 - mag) ELSE Parsed(mag)

(***************************************************************************)
(* float(s) for the decimal notation [sign] digitpart ["." [digitpart]] or *)
(* [sign] "." digitpart.  The inputs of the model hold no exponent and     *)
(* none of the words inf, infinity, nan.  The value is the exact decimal,  *)
(* <<m, e>> standing for m * 10^(-e) with no trailing zero in the          *)
(* fraction, so that equal numbers have equal representations.             *)
(***************************************************************************)
RECURSIVE dec_norm(_, _)
dec_norm(m, e) ==
    IF e > 0 /\ m % 10 = 0 THEN dec_norm(m \div 10, e - 1) ELSE <<m, e>>

RECURSIVE pow10(_)
pow10(e) == IF e = 0 THEN 1 ELSE 10 * pow10(e - 1)

dec_lt(x, y) == x[1] * pow10(y[2]) < y[1] * pow10(x[2])

float_py(s) ==
    LET t == strip(s)
        signed == t # <<>> /\ t[1] \in {"+", "-"}
        body == IF signed THEN Tail(t) ELSE t
        dots == {k \in 1..Len(body) : body[k] = "."}
        p == IF dots = {} THEN Len(body) + 1 ELSE MinOf(dots)
        ent == SubSeq(body, 1, p - 1)
        frac == SubSeq(body, p + 1, Len(body))
        wellformed ==
            /\ Cardinality(dots) <= 1
            /\ ent # <<>> \/ frac # <<>>
            /\ ent = <<>> \/ es_digitpart(ent)
            /\ frac = <<>> \/ es_digitpart(frac)
        fd == SelectSeq(frac, es_digito)
        mag == decimal_val(SelectSeq(ent, es_digito)) * pow10(Len(fd)) + decimal_val(fd)
        sgn == IF signed /\ t[1] = "-" THEN 0 - 1 ELSE 1
    IN  IF ~wellformed THEN ValueError ELSE Parsed(dec_norm(sgn * mag, Len(fd)))

(***************************************************************************)
(* The prompt functions.  One iteration of a function's while loop reads   *)
(* one line; its outcome is the state the function is in afterwards.       *)
(***************************************************************************)
Devuelve(v, out) == [estado |-> "devuelto", resultado |-> Some(v), impreso |-> out]
Reintenta(out) == [estado |-> "pidiendo", resultado |-> None, impreso |-> out]
Cancela(out) == [estado |-> "cancelado", resultado |-> None, impreso |-> out]
Falla(out) == [estado |-> "error", resultado |-> None, impreso |-> out]

\* _leer_input comparing dato == cancelar, without upper()
_leer_input_sin_upper(entrada, cancel) ==
    LET dato == strip(entrada)
    IN  [cancelado |-> dato = cancel, dato |-> dato]

\* _leer_input: the stripped line, or FlujoCancelado
_leer_input(entrada, cancel) ==
    LET dato == strip(entrada)
    IN  IF str_upper(dato) = str_upper(cancel)
        THEN [cancelado |-> TRUE, dato |-> dato]
        ELSE [cancelado |-> FALSE, dato |-> dato]

pedir_texto_iter(entrada, vacio_ok, cancel) ==
    LET r == _leer_input(entrada, cancel)
    IN  IF r.cancelado THEN Cancela(<<>>)
        ELSE IF r.dato = <<>> /\ ~vacio_ok
             THEN Reintenta(<<"error: No puede estar vacio">>)
             ELSE Devuelve(r.dato, <<>>)

opciones_norm(opts) == [k \in 1..Len(opts) |-> strip(opts[k])]
opciones_low(opts) == [k \in 1..Len(opts) |-> str_lower(opciones_norm(opts)[k])]

\* list.index(x): the first position holding x
index(lista, x) == MinOf({k \in 1..Len(lista) : lista[k] = x})

\* pedir_opcion returning the user's text instead of the listed option
pedir_opcion_iter_dato(entrada, opts, cancel) ==
    LET info == "info: Opciones validas"
        r == _leer_input(entrada, cancel)
        low == opciones_low(opts)
    IN  IF r.cancelado THEN Cancela(<<info>>)
        ELSE IF \E k \in 1..Len(low) : low[k] = str_lower(r.dato)
             THEN Devuelve(r.dato, <<info>>)
             ELSE Reintenta(<<info, "error: Opcion invalida">>)

pedir_opcion_iter(entrada, opts, cancel) ==
    LET info == "info: Opciones validas"
        r == _leer_input(entrada, cancel)
        low == opciones_low(opts)
    IN  IF r.cancelado THEN Cancela(<<info>>)
        ELSE IF \E k \in 1..Len(low) : low[k] = str_lower(r.dato)
             THEN Devuelve(opciones_norm(opts)[index(low, str_lower(r.dato))], <<info>>)
             ELSE Reintenta(<<info, "error: Opcion invalida">>)

\* pedir_entero with an exclusive minimum (n <= minimo rejected)
pedir_entero_iter_exclusivo(entrada, min, max, cancel) ==
    LET r == _leer_input(entrada, cancel)
        n == int_py(r.dato)
    IN  IF r.cancelado THEN Cancela(<<>>)
        ELSE IF ~n.ok THEN Reintenta(<<"error: Debe ser un numero entero">>)
        ELSE IF min # None /\ n.val <= min[1] THEN Reintenta(<<"error: Debe ser >= minimo">>)
        ELSE IF max # None /\ n.val > max[1] THEN Reintenta(<<"error: Debe ser <= maximo">>)
        ELSE Devuelve(n.val, <<>>)

pedir_entero_iter(entrada, min, max, cancel) ==
    LET r == _leer_input(entrada, cancel)
        n == int_py(r.dato)
    IN  IF r.cancelado THEN Cancela(<<>>)
        ELSE IF ~n.ok THEN Reintenta(<<"error: Debe ser un numero entero">>)
        ELSE IF min # None /\ n.val < min[1] THEN Reintenta(<<"error: Debe ser >= minimo">>)
        ELSE IF max # None /\ n.val > max[1] THEN Reintenta(<<"error: Debe ser <= maximo">>)
        ELSE Devuelve(n.val, <<>>)

\* pedir_float without the replace(",", ".")
pedir_float_iter_sin_coma(entrada, min, max, cancel) ==
    LET r == _leer_input(entrada, cancel)
        x == float_py(r.dato)
    IN  IF r.cancelado THEN Cancela(<<>>)
        ELSE IF ~x.ok THEN Reintenta(<<"error: Debe ser un numero">>)
        ELSE IF min # None /\ dec_lt(x.val, min[1]) THEN Reintenta(<<"error: Debe ser >= minimo">>)
        ELSE IF max # None /\ dec_lt(max[1], x.val) THEN Reintenta(<<"error: Debe ser <= maximo">>)
        ELSE Devuelve(x.val, <<>>)

pedir_float_iter(entrada, min, max, cancel) ==
    LET r == _leer_input(entrada, cancel)
        x == float_py(replace(r.dato, ",", "."))
    IN  IF r.cancelado THEN Cancela(<<>>)
        ELSE IF ~x.ok THEN Reintenta(<<"error: Debe ser un numero">>)
        ELSE IF min # None /\ dec_lt(x.val, min[1]) THEN Reintenta(<<"error: Debe ser >= minimo">>)
        ELSE IF max # None /\ dec_lt(max[1], x.val) THEN Reintenta(<<"error: Debe ser <= maximo">>)
        ELSE Devuelve(x.val, <<>>)

RespuestasSi == {<<"s">>, <<"s", "i">>, <<"s", iAcute>>}
RespuestasNo == {<<"n">>, <<"n", "o">>}

\* confirmar comparing dato without lower()
confirmar_iter_sin_lower(entrada, cancel) ==
    LET r == _leer_input(entrada, cancel)
    IN  IF r.cancelado THEN Cancela(<<>>)
        ELSE IF r.dato \in RespuestasSi THEN Devuelve(TRUE, <<>>)
        ELSE IF r.dato \in RespuestasNo THEN Devuelve(FALSE, <<>>)
        ELSE Reintenta(<<"warn: Responda s o n">>)

confirmar_iter(entrada, cancel) ==
    LET r == _leer_input(entrada, cancel)
    IN  IF r.cancelado THEN Cancela(<<>>)
        ELSE IF str_lower(r.dato) \in RespuestasSi THEN Devuelve(TRUE, <<>>)
        ELSE IF str_lower(r.dato) \in RespuestasNo THEN Devuelve(FALSE, <<>>)
        ELSE Reintenta(<<"warn: Responda s o n">>)

(***************************************************************************)
(* Validators.                                                             *)
(***************************************************************************)
EmailLocal == Letras \cup Digitos \cup {".", "_", "%", "+", "-"}
EmailDominio == Letras \cup Digitos \cup {".", "-"}

\* _email_re.match: ^[A-Za-z0-9._%+-]+@[A-Za-z0-9.-]+\.[A-Za-z]{2,}$
email_re_match(s) ==
    \E a \in 2..Len(s) : \E p \in (a + 2)..(Len(s) - 2) :
        /\ s[a] = "@"
        /\ s[p] = "."
        /\ \A k \in 1..(a - 1) : s[k] \in EmailLocal
        /\ \A k \in (a + 1)..(p - 1) : s[k] \in EmailDominio
        /\ \A k \in (p + 1)..Len(s) : s[k] \in Letras

validar_email(s) == email_re_match(strip(s))

\* normalizar_cuit: the digits of the argument when there are 11 of them
normalizar_cuit(c) ==
    LET digitos == SelectSeq(c, es_digito)
    IN  IF Len(digitos) = 11 THEN Some(digitos) ELSE None

\* the weights with the last two exchanged
pesos_permutados == <<5, 4, 3, 2, 7, 6, 5, 4, 2, 3>>

pesos == <<5, 4, 3, 2, 7, 6, 5, 4, 3, 2>>

RECURSIVE suma_zip(_, _, _)
suma_zip(ds, ps, k) ==
    IF k > Len(ds) \/ k > Len(ps) THEN 0
    ELSE digit_val(ds[k]) * ps[k] + suma_zip(ds, ps, k + 1)

\* _dv_cuit without the rule that turns 10 into 9
_dv_cuit_sin_regla_10(diez_digitos) ==
    LET s == suma_zip(diez_digitos, pesos, 1)
        mod == s % 11
        d == 11 - mod
    IN  IF d = 11 THEN 0 ELSE d

_dv_cuit(diez_digitos) ==
    LET s == suma_zip(diez_digitos, pesos, 1)
        mod == s % 11
        d == 11 - mod
    IN  IF d = 11 THEN 0 ELSE IF d = 10 THEN 9 ELSE d

validar_cuit(c) ==
    LET n == normalizar_cuit(c)
    IN  IF n = None THEN FALSE
        ELSE _dv_cuit(SubSeq(n[1], 1, 10)) = digit_val(n[1][11])

pedir_email_iter(entrada, cancel) ==
    LET r == _leer_input(entrada, cancel)
    IN  IF r.cancelado THEN Cancela(<<>>)
        ELSE IF validar_email(r.dato) THEN Devuelve(r.dato, <<>>)
        ELSE Reintenta(<<"error: Email invalido">>)

\* pedir_cuit raising on an invalid CUIT instead of asking again
pedir_cuit_iter_raise(entrada, cancel) ==
    LET r == _leer_input(entrada, cancel)
    IN  IF r.cancelado THEN Cancela(<<>>)
        ELSE IF validar_cuit(r.dato) THEN Devuelve(r.dato, <<>>)
        ELSE Falla(<<"error: CUIT/CUIL invalido">>)

pedir_cuit_iter(entrada, cancel) ==
    LET r == _leer_input(entrada, cancel)
    IN  IF r.cancelado THEN Cancela(<<>>)
        ELSE IF validar_cuit(r.dato) THEN Devuelve(r.dato, <<>>)
        ELSE Reintenta(<<"error: CUIT/CUIL invalido">>)

(***************************************************************************)
(* Inputs of the prompt functions: the arguments of the call and the lines *)
(* the user may type.                                                      *)
(***************************************************************************)
CANCELAR == <<"C", "A", "N", "C", "E", "L", "A", "R">>
VariantesCancelar == {CANCELAR,
                      <<"c", "a", "n", "c", "e", "l", "a", "r">>,
                      <<" ", "C", "a", "n", "c", "e", "l", "a", "r", " ">>}

Ops == {"pedir_texto", "pedir_opcion", "pedir_entero", "pedir_float",
        "confirmar", "pedir_email", "pedir_cuit"}

EmailValido == <<"a", "@", "b", ".", "c", "o", "m">>
CuitValido == <<"2", "0", "-", "1", "2", "3", "4", "5", "6", "7", "8", "-", "6">>

Centinelas(o) ==
    CASE o = "pedir_texto" -> {CANCELAR, <<>>, <<"a">>}
      [] o = "pedir_opcion" -> {CANCELAR, <<"s", "I">>, <<"B">>}
      [] o = "pedir_entero" -> {CANCELAR, <<"1">>}
      [] o = "pedir_float" -> {CANCELAR, <<"1">>, <<"1", ",", "5">>}
      [] o = "confirmar" -> {CANCELAR, <<"s">>, <<"N", "o">>}
      [] o = "pedir_email" -> {CANCELAR, EmailValido}
      [] o = "pedir_cuit" -> {CANCELAR, CuitValido}

ListasDeOpciones ==
    { << <<"S", "i">>, <<"a", "B">> >>,
      << <<" ", "a", "B", " ">>, <<"B">> >>,
      << <<"a", "b">>, <<"A", "B">> >>,
      << <<" ", "b">>, <<"B">> >>,
      << >> }

LimitesEnteros == {None} \cup {Some(n) : n \in 0..MaxLim}
LimitesFloat == {None, Some(<<0, 0>>), Some(<<15, 1>>)}

EmailsDeMuestra ==
    { l \o a \o d \o p \o t :
        l \in {<<>>, <<"a">>, <<"a", ".", "b", "+", "c">>, <<iAcute>>},
        a \in {<<"@">>, <<>>},
        d \in {<<"b">>, <<"d", "-", "1">>, <<>>},
        p \in {<<".">>, <<>>},
        t \in {<<"c", "o", "m">>, <<"c", "o">>, <<"c">>, <<"c", "0">>, <<>>} }

CuitsDeMuestra ==
    { CuitValido,
      <<"2", "0", "1", "2", "3", "4", "5", "6", "7", "8", "6">>,
      <<"2", "0", " ", "1", "2", "3", "4", "5", "6", "7", "8", " ", "6">>,
      <<"2", "0", "-", "1", "2", "3", "4", "5", "6", "7", "8", "-", "9">>,
      <<"2", "0", "-", "1", "2", "3", "4", "5", "6", "7", "8">>,
      <<"2", "0", "-", "1", "2", "3", "4", "5", "6", "7", "8", "-", "6", "6">> }

Alfabeto(o) ==
    CASE o = "pedir_texto" -> {"a", "A", "x", " "}
      [] o = "pedir_opcion" -> {"s", "S", "i", "a", "b", "B", " "}
      [] o = "pedir_entero" -> {"0", "1", "2", "-", "+", "_", " "}
      [] o = "pedir_float" -> {"0", "1", "5", ".", ",", "-", " "}
      [] o = "confirmar" -> {"s", "S", "i", IAcute, "n", "O", " ", "x"}
      [] o = "pedir_email" -> {"a", "@", "."}
      [] o = "pedir_cuit" -> {"2", "0", "-"}

Muestras(o) ==
    CASE o = "pedir_email" -> EmailsDeMuestra
      [] o = "pedir_cuit" -> CuitsDeMuestra
      [] OTHER -> {}

\* the lines input() may return during a call of o
Lineas(o) == SeqsUpTo(Alfabeto(o), MaxLen) \cup VariantesCancelar \cup Muestras(o)

InitCuitIdle ==
    /\ cuit = <<>> /\ pasoCuit = "inactivo" /\ norm = None /\ dv = None /\ valido = None
InitFiltrarIdle ==
    /\ lineas = <<>> /\ idx = 0 /\ validos = <<>> /\ rechazados = <<>>
InitArchivoIdle ==
    /\ programa = "ninguno" /\ fs = "legible" /\ contenido = <<>> /\ fallaEn = 0 /\ quitar = TRUE
    /\ pcArchivo = "inactivo" /\ leidas = 0 /\ salida = <<>> /\ excepcion = None
InitPromptIdle ==
    /\ op = "ninguna" /\ cancelar = CANCELAR /\ permitir_vacio = FALSE
    /\ opciones = <<>> /\ linea = None /\ estado = "inactivo"
    /\ resultado = None /\ impreso = <<>>
InitLimitesIdle == minimo = None /\ maximo = None

\* a prompt function has been called and is about to read its first line
Init ==
    /\ op \in Ops
    /\ cancelar \in Centinelas(op)
    /\ permitir_vacio \in (IF op = "pedir_texto" THEN BOOLEAN ELSE {FALSE})
    /\ opciones \in (IF op = "pedir_opcion" THEN ListasDeOpciones ELSE {<<>>})
    /\ minimo \in (CASE op = "pedir_entero" -> LimitesEnteros
                     [] op = "pedir_float" -> LimitesFloat
                     [] OTHER -> {None})
    /\ maximo \in (CASE op = "pedir_entero" -> LimitesEnteros
                     [] op = "pedir_float" -> LimitesFloat
                     [] OTHER -> {None})
    /\ linea = None
    /\ estado = "pidiendo"
    /\ resultado = None
    /\ impreso = <<>>
    /\ InitCuitIdle /\ InitFiltrarIdle /\ InitArchivoIdle

\* input() returns the next line the user typed
input ==
    /\ estado = "pidiendo"
    /\ \E e \in Lineas(op) : linea' = Some(e)
    /\ estado' = "leido"
    /\ UNCHANGED <<op, cancelar, permitir_vacio, opciones, minimo, maximo,
                   resultado, impreso>>
    /\ UNCHANGED <<cuitVars, filtrarVars, archivoVars>>

\* the rest of the iteration of the while loop: the function returns, raises
\* FlujoCancelado, or goes back to the top of the loop (the line is dropped)
Iterar(o) ==
    /\ linea' = IF o.estado = "pidiendo" THEN None ELSE linea
    /\ estado' = o.estado
    /\ resultado' = o.resultado
    /\ impreso' = o.impreso
    /\ UNCHANGED <<op, cancelar, permitir_vacio, opciones, minimo, maximo>>
    /\ UNCHANGED <<cuitVars, filtrarVars, archivoVars>>

pedir_texto ==
    /\ op = "pedir_texto" /\ estado = "leido"
    /\ Iterar(pedir_texto_iter(linea[1], permitir_vacio, cancelar))

pedir_opcion ==
    /\ op = "pedir_opcion" /\ estado = "leido"
    /\ Iterar(pedir_opcion_iter(linea[1], opciones, cancelar))

pedir_entero ==
    /\ op = "pedir_entero" /\ estado = "leido"
    /\ Iterar(pedir_entero_iter(linea[1], minimo, maximo, cancelar))

pedir_float ==
    /\ op = "pedir_float" /\ estado = "leido"
    /\ Iterar(pedir_float_iter(linea[1], minimo, maximo, cancelar))

confirmar ==
    /\ op = "confirmar" /\ estado = "leido"
    /\ Iterar(confirmar_iter(linea[1], cancelar))

pedir_email ==
    /\ op = "pedir_email" /\ estado = "leido"
    /\ Iterar(pedir_email_iter(linea[1], cancelar))

pedir_cuit ==
    /\ op = "pedir_cuit" /\ estado = "leido"
    /\ Iterar(pedir_cuit_iter(linea[1], cancelar))

Next ==
    \/ input
    \/ pedir_texto
    \/ pedir_opcion
    \/ pedir_entero
    \/ pedir_float
    \/ confirmar
    \/ pedir_email
    \/ pedir_cuit

Spec == Init /\ [][Next]_vars

(***************************************************************************)
(* Properties of the prompt functions.                                     *)
(***************************************************************************)
\* the line, trimmed, equals the sentinel but for the case of its letters
IgualSinCaja(t, u) ==
    Len(t) = Len(u) /\ \A k \in 1..Len(t) : chr_lower(t[k]) = chr_lower(u[k])
EsCentinela(l, c) == IgualSinCaja(strip(l), c)
Leido(o) == op = o /\ estado = "leido"

\* C1: in every prompt function, a line that after trimming equals the
\* sentinel but for case makes the call raise FlujoCancelado at that attempt:
\* no value is returned and the loop does not go round again, also when the
\* line would pass the function's validation.
C1_CentinelaCancela ==
    [][(estado = "leido" /\ EsCentinela(linea[1], cancelar))
          => (estado' = "cancelado" /\ resultado' = None)]_vars

\* the sentinel is the empty string, which pedir_texto would accept
C1_Witness ==
    /\ op = "pedir_texto" /\ estado = "cancelado" /\ permitir_vacio
    /\ strip(linea[1]) = <<>>

\* the members of opts the trimmed line is a casing variant of
VarianteDe(l, opts) == {k \in 1..Len(opts) : IgualSinCaja(strip(l), opts[k])}
VarianteDeRecortada(l, opts) ==
    {k \in 1..Len(opts) : IgualSinCaja(strip(l), strip(opts[k]))}

EsTextoDecimal(t) ==
    LET b == IF t # <<>> /\ t[1] = "-" THEN Tail(t) ELSE t
    IN  /\ b # <<>>
        /\ \A k \in 1..Len(b) : b[k] \in Digitos
        /\ Len(b) = 1 \/ b[1] # "0"
        /\ ~(t[1] = "-" /\ b = <<"0">>)
ValorDecimal(t) ==
    IF t[1] = "-" THEN 0 - decimal_val(Tail(t)) ELSE decimal_val(t)
\* a text that is no integer in any notation: no digit in it, or a character
\* that is neither a digit, a sign nor an underscore
NoEsEntero(t) ==
    \/ \A k \in 1..Len(t) : t[k] \notin Digitos
    \/ \E k \in 1..Len(t) : t[k] \notin Digitos \cup {"+", "-", "_"}
EnRango(n, min, max) == (min = None \/ min[1] <= n) /\ (max = None \/ n <= max[1])

EnteroSegunClaim(cond) ==
    (Leido("pedir_entero") /\ cond)
          => LET t == strip(linea[1])
             IN  /\ (EsTextoDecimal(t) /\ EnRango(ValorDecimal(t), minimo, maximo))
                        => (estado' = "devuelto" /\ resultado' = Some(ValorDecimal(t)))
                 /\ ((EsTextoDecimal(t) /\ ~EnRango(ValorDecimal(t), minimo, maximo))
                         \/ NoEsEntero(t))
                        => (estado' = "pidiendo" /\ resultado' = None)
                 /\ estado' = "devuelto" => EnRango(resultado'[1], minimo, maximo)

\* C3 as stated: pedir_entero fed the decimal text of n returns n when n is
\* within the inclusive limits; fed an out-of-range or non-integer text it
\* asks again; every value it returns is within the limits.
C3_Original == [][EnteroSegunClaim(TRUE)]_vars

\* C3 amended: the same, for every line that is not the sentinel.
C3_EnteroEnRango == [][EnteroSegunClaim(~EsCentinela(linea[1], cancelar))]_vars

\* a value equal to both inclusive limits was returned
C3_Witness ==
    /\ op = "pedir_entero" /\ estado = "devuelto"
    /\ minimo # None /\ maximo # None
    /\ resultado = minimo /\ resultado = maximo

\* [sign] digits separator digits, with at least one digit
EsCadenaDecimal(t) ==
    LET b == IF t # <<>> /\ t[1] \in {"+", "-"} THEN Tail(t) ELSE t
        seps == {k \in 1..Len(b) : b[k] \in {".", ","}}
    IN  /\ Cardinality(seps) = 1
        /\ Len(b) >= 2
        /\ \A k \in 1..Len(b) : b[k] \in Digitos \cup {".", ","}
\* the strings that differ from l only in the separator used
Gemelas(l) ==
    {g \in [1..Len(l) -> {l[k] : k \in 1..Len(l)} \cup {".", ","}] :
        \A k \in 1..Len(l) :
            IF l[k] \in {".", ","} THEN g[k] \in {".", ","} ELSE g[k] = l[k]}

FloatSegunClaim(salvoCentinela) ==
    (Leido("pedir_float") /\ EsCadenaDecimal(strip(linea[1])))
          => \A g \in Gemelas(linea[1]) :
                (salvoCentinela => (~EsCentinela(linea[1], cancelar) /\ ~EsCentinela(g, cancelar)))
                   => LET o == pedir_float_iter(g, minimo, maximo, cancelar)
                      IN  /\ estado' \in {"devuelto", "pidiendo"}
                          /\ estado' = o.estado
                          /\ resultado' = o.resultado

\* C6 as stated: two decimal strings that differ only in the separator
\* ("," or ".") have the same outcome in pedir_float with the same limits:
\* both returned as the same number, or both rejected and asked again.
C6_Original == [][FloatSegunClaim(FALSE)]_vars

\* C6 amended: the same, when neither string is the sentinel.
C6_ComaIgualPunto == [][FloatSegunClaim(TRUE)]_vars

\* a number typed with a comma was returned
C6_Witness ==
    /\ op = "pedir_float" /\ estado = "devuelto"
    /\ \E k \in 1..Len(linea[1]) : linea[1][k] = ","

\* the validation of each prompt function
Valida(t) ==
    CASE op = "pedir_texto" -> t # <<>> \/ permitir_vacio
      [] op = "pedir_opcion" -> VarianteDeRecortada(t, opciones) # {}
      [] op = "pedir_entero" -> int_py(t).ok /\ EnRango(int_py(t).val, minimo, maximo)
      [] op = "pedir_float" ->
            LET x == float_py(replace(t, ",", "."))
            IN  /\ x.ok
                /\ minimo = None \/ ~dec_lt(x.val, minimo[1])
                /\ maximo = None \/ ~dec_lt(maximo[1], x.val)
      [] op = "confirmar" -> str_lower(t) \in RespuestasSi \cup RespuestasNo
      [] op = "pedir_email" -> validar_email(t)
      [] op = "pedir_cuit" -> validar_cuit(t)

\* C7: the loop of a prompt function ends only by returning a validated
\* value or by raising FlujoCancelado: an invalid line that is not the
\* sentinel raises nothing and leads back to input() with a message printed,
\* whatever the number of invalid lines before it, and the call ends at the
\* first line that is the sentinel or valid.
C7_SoloValidoOCancelar ==
    /\ [](estado = "pidiendo" => ENABLED input)
    /\ [][estado = "leido"
             => LET t == strip(linea[1])
                    c == EsCentinela(linea[1], cancelar)
                IN  /\ estado' \in {"pidiendo", "devuelto", "cancelado"}
                    /\ c => estado' = "cancelado"
                    /\ (~c /\ Valida(t)) => estado' = "devuelto"
                    /\ (~c /\ ~Valida(t))
                          => (estado' = "pidiendo" /\ impreso' # <<>> /\ resultado' = None)]_vars

\* pedir_cuit is back at input() after an invalid CUIT
C7_Witness ==
    /\ op = "pedir_cuit" /\ estado = "pidiendo"
    /\ impreso = <<"error: CUIT/CUIL invalido">>

\* C9: for a line that is not the sentinel, confirmar returns TRUE exactly
\* when the trimmed line is "s", "si" or "si" with an accent in any case,
\* FALSE exactly when it is "n" or "no" in any case, and otherwise returns
\* nothing, warns and asks again; no line is both a yes and a no.
C9_Confirmar ==
    [][(Leido("confirmar") /\ ~EsCentinela(linea[1], cancelar))
          => LET t == strip(linea[1])
                 si == \E u \in {<<"s">>, <<"s", "i">>, <<"s", iAcute>>} : IgualSinCaja(t, u)
                 no == \E u \in {<<"n">>, <<"n", "o">>} : IgualSinCaja(t, u)
             IN  /\ ~(si /\ no)
                 /\ si <=> (estado' = "devuelto" /\ resultado' = Some(TRUE))
                 /\ no <=> (estado' = "devuelto" /\ resultado' = Some(FALSE))
                 /\ (~si /\ ~no)
                       <=> (/\ estado' = "pidiendo" /\ resultado' = None
                            /\ impreso' = <<"warn: Responda s o n">>)]_vars

\* an upper-case accented yes was accepted
C9_Witness ==
    /\ op = "confirmar" /\ estado = "devuelto"
    /\ resultado = Some(TRUE)
    /\ strip(linea[1]) = <<"S", IAcute>>

(***************************************************************************)
(* validar_cuit on its own.  The inputs are 10, 11 and 12 digit numbers    *)
(* whose first ten digits are taken, position by position, from one of two *)
(* numbers, written plainly, with hyphens, with spaces or after a letter.  *)
(***************************************************************************)
BaseA == <<"2", "0", "1", "2", "3", "4", "5", "6", "7", "8">>
BaseB == <<"3", "3", "7", "0", "9", "1", "0", "5", "2", "4">>
BasesCuit == {[k \in 1..10 |-> IF k \in S THEN BaseA[k] ELSE BaseB[k]] : S \in SUBSET (1..10)}
NumerosCuit ==
    BasesCuit \cup {b \o <<d>> : b \in BasesCuit, d \in Digitos}
              \cup {b \o <<"9", d>> : b \in {BaseA, BaseB}, d \in Digitos}
Formatos == {"plano", "guiones", "espacios", "letra"}
Formatear(ds, f) ==
    CASE f = "plano" -> ds
      [] f = "guiones" -> SubSeq(ds, 1, 2) \o <<"-">> \o SubSeq(ds, 3, 10) \o <<"-">>
                            \o SubSeq(ds, 11, Len(ds))
      [] f = "espacios" -> <<" ">> \o SubSeq(ds, 1, 2) \o <<" ">> \o SubSeq(ds, 3, 10)
                            \o <<" ">> \o SubSeq(ds, 11, Len(ds))
      [] f = "letra" -> <<"x">> \o ds

InitCuit ==
    /\ \E ds \in NumerosCuit, f \in Formatos : cuit = Formatear(ds, f)
    /\ pasoCuit = "llamada"
    /\ norm = None /\ dv = None /\ valido = None
    /\ InitPromptIdle /\ InitLimitesIdle /\ InitFiltrarIdle /\ InitArchivoIdle

\* validar_cuit: norm = normalizar_cuit(cuit); if not norm: return False
normalizar ==
    /\ pasoCuit = "llamada"
    /\ norm' = normalizar_cuit(cuit)
    /\ IF normalizar_cuit(cuit) = None
       THEN pasoCuit' = "fin" /\ valido' = Some(validar_cuit(cuit))
       ELSE pasoCuit' = "normalizado" /\ valido' = valido
    /\ UNCHANGED <<cuit, dv>>
    /\ UNCHANGED <<promptVars, filtrarVars, archivoVars>>

\* validar_cuit: _dv_cuit(base)
digito_verificador ==
    /\ pasoCuit = "normalizado"
    /\ dv' = Some(_dv_cuit(SubSeq(norm[1], 1, 10)))
    /\ pasoCuit' = "dv"
    /\ UNCHANGED <<cuit, norm, valido>>
    /\ UNCHANGED <<promptVars, filtrarVars, archivoVars>>

\* validar_cuit: return _dv_cuit(base) == dv
comparar ==
    /\ pasoCuit = "dv"
    /\ valido' = Some(validar_cuit(cuit))
    /\ pasoCuit' = "fin"
    /\ UNCHANGED <<cuit, norm, dv>>
    /\ UNCHANGED <<promptVars, filtrarVars, archivoVars>>

NextCuit == normalizar \/ digito_verificador \/ comparar

SpecCuit == InitCuit /\ [][NextCuit]_vars

\* the digits of a string, in order
RECURSIVE SoloDigitos(_)
SoloDigitos(c) ==
    IF c = <<>> THEN <<>>
    ELSE IF Head(c) \in Digitos THEN <<digit_val(Head(c))>> \o SoloDigitos(Tail(c))
    ELSE SoloDigitos(Tail(c))

DigitoEsperado(d) ==
    LET sum == 5 * d[1] + 4 * d[2] + 3 * d[3] + 2 * d[4] + 7 * d[5]
               + 6 * d[6] + 5 * d[7] + 4 * d[8] + 3 * d[9] + 2 * d[10]
        candidate == 11 - (sum % 11)
    IN  IF candidate = 11 THEN 0 ELSE IF candidate = 10 THEN 9 ELSE candidate

\* C4: validar_cuit(s) is true exactly when the digits of s, every other
\* character removed, are 11 and the 11th equals the check digit of the
\* first ten: 11 - ((5,4,3,2,7,6,5,4,3,2 . d1..d10) mod 11), with 11 read
\* as 0 and 10 as 9.  The result depends on the digits only.
C4_ValidarCuit ==
    valido # None
        => LET d == SoloDigitos(cuit)
           IN  valido[1] = (Len(d) = 11 /\ d[11] = DigitoEsperado(d))

\* a CUIT written with hyphens whose check digit comes from the rule for 10
C4_Witness ==
    /\ valido = Some(TRUE)
    /\ \E k \in 1..Len(cuit) : cuit[k] = "-"
    /\ dv = Some(9)
    /\ suma_zip(norm[1], pesos, 1) % 11 = 1

\* C10: the check digit _dv_cuit computes for ten digits is a single digit
\* 0..9, and exactly one 11th digit makes validar_cuit accept a given base.
C10_DigitoUnico ==
    dv # None
        => /\ dv[1] \in 0..9
           /\ Cardinality({d \in Digitos :
                              validar_cuit(SubSeq(norm[1], 1, 10) \o <<d>>)}) = 1

\* a base whose weighted sum is a multiple of 11: the candidate 11 becomes 0
C10_Witness ==
    /\ dv = Some(0)
    /\ suma_zip(norm[1], pesos, 1) % 11 = 0
    /\ suma_zip(norm[1], pesos, 1) > 0

(***************************************************************************)
(* filtrar_enteros_validos: the for loop over the lines, one line a step.  *)
(***************************************************************************)
\* the body of the loop, with a rejected out-of-range number left out
filtrar_iter_omite(ln, min, max, vs, rs) ==
    LET n == int_py(ln)
    IN  IF ~n.ok THEN [validos |-> vs, rechazados |-> Append(rs, ln)]
        ELSE IF (min # None /\ n.val < min[1]) \/ (max # None /\ n.val > max[1])
             THEN [validos |-> vs, rechazados |-> rs]
             ELSE [validos |-> Append(vs, n.val), rechazados |-> rs]

\* the body of the loop for the line ln
filtrar_iter(ln, min, max, vs, rs) ==
    LET n == int_py(ln)
    IN  IF ~n.ok THEN [validos |-> vs, rechazados |-> Append(rs, ln)]
        ELSE IF (min # None /\ n.val < min[1]) \/ (max # None /\ n.val > max[1])
             THEN [validos |-> vs, rechazados |-> Append(rs, ln)]
             ELSE [validos |-> Append(vs, n.val), rechazados |-> rs]

LineasDeMuestra ==
    { <<"5">>, <<"a", "b", "c">>, <<"1", "2">>, <<"-", "1">>,
      <<" ", "7", " ">>, <<"+", "0">>, <<"1", "_", "0">>, <<>> }
Ejemplo == << <<"5">>, <<"a", "b", "c">>, <<"1", "2">>, <<"-", "1">> >>
LimitesFiltrar == {None, Some(0), Some(10)}

InitFiltrar ==
    /\ lineas \in SeqsUpTo(LineasDeMuestra, MaxLineas) \cup {Ejemplo}
    /\ minimo \in LimitesFiltrar
    /\ maximo \in LimitesFiltrar
    /\ idx = 0
    /\ validos = <<>>
    /\ rechazados = <<>>
    /\ InitPromptIdle /\ InitCuitIdle /\ InitArchivoIdle

filtrar_enteros_validos ==
    /\ idx < Len(lineas)
    /\ LET r == filtrar_iter(lineas[idx + 1], minimo, maximo, validos, rechazados)
       IN  validos' = r.validos /\ rechazados' = r.rechazados
    /\ idx' = idx + 1
    /\ UNCHANGED <<lineas, cuitVars, archivoVars>>
    /\ UNCHANGED promptVars

NextFiltrar == filtrar_enteros_validos

SpecFiltrar == InitFiltrar /\ [][NextFiltrar]_vars

\* the line parses as an integer within the inclusive limits
AceptadaPorFiltro(ln) ==
    int_py(ln).ok /\ EnRango(int_py(ln).val, minimo, maximo)
RechazadaPorFiltro(ln) == ~AceptadaPorFiltro(ln)
RECURSIVE EnterosDe(_)
EnterosDe(ls) ==
    IF ls = <<>> THEN <<>> ELSE <<int_py(Head(ls)).val>> \o EnterosDe(Tail(ls))

\* C5: of the lines consumed so far, validos holds the integers of exactly
\* those that parse within the inclusive limits and rechazados the original
\* strings of all the others, each in the order of the input, every line in
\* exactly one of the two; the lines "5", "abc", "12", "-1" with limits 0 and
\* 10 give ([5], ["abc", "12", "-1"]).
C5_Particion ==
    LET vistas == SubSeq(lineas, 1, idx)
    IN  /\ Len(validos) + Len(rechazados) = idx
        /\ validos = EnterosDe(SelectSeq(vistas, AceptadaPorFiltro))
        /\ rechazados = SelectSeq(vistas, RechazadaPorFiltro)
        /\ (lineas = Ejemplo /\ idx = 4 /\ minimo = Some(0) /\ maximo = Some(10))
              => (validos = <<5>> /\ rechazados = Tail(Ejemplo))

\* the example has been classified
C5_Witness ==
    /\ lineas = Ejemplo /\ idx = 4 /\ minimo = Some(0) /\ maximo = Some(10)
    /\ validos = <<5>>
    /\ Len(rechazados) = 3

(***************************************************************************)
(* Reading a text file: the name-list script and leer_lineas_txt.          *)
(***************************************************************************)
LineasDeArchivo == { <<"A", "n", "a", ";">>, <<" ", ";", "L", "i", ";", " ">>, <<>> }

InitArchivo ==
    /\ programa \in {"script", "leer_lineas_txt"}
    /\ fs \in {"ausente", "denegado", "legible"}
    /\ contenido \in SeqsUpTo(LineasDeArchivo, MaxLineas)
    /\ fallaEn \in 0..Len(contenido)
    /\ quitar \in (IF programa = "leer_lineas_txt" THEN BOOLEAN ELSE {TRUE})
    /\ pcArchivo = "open"
    /\ leidas = 0
    /\ salida = <<>>
    /\ excepcion = None
    /\ InitPromptIdle /\ InitLimitesIdle /\ InitCuitIdle /\ InitFiltrarIdle

\* open(ruta, "r", encoding="utf-8")
open_py(f) ==
    CASE f = "ausente" -> Some("FileNotFoundError")
      [] f = "denegado" -> Some("PermissionError")
      [] f = "legible" -> None

ArchivoSigue(pc, out, exc, n) ==
    /\ pcArchivo' = pc /\ salida' = out /\ excepcion' = exc /\ leidas' = n
    /\ UNCHANGED <<programa, fs, contenido, fallaEn, quitar>>
    /\ UNCHANGED <<promptVars, cuitVars, filtrarVars>>

\* the script: with open(...) as archivo
script_open ==
    /\ programa = "script" /\ pcArchivo = "open"
    /\ IF open_py(fs) = None
       THEN ArchivoSigue("for", salida, None, leidas)
       ELSE ArchivoSigue("except", salida, open_py(fs), leidas)

\* the script: one iteration of for linea in archivo, or its end
script_for ==
    /\ programa = "script" /\ pcArchivo = "for"
    /\ IF leidas = Len(contenido)
       THEN ArchivoSigue("fin", salida, None, leidas)
       ELSE IF fallaEn = leidas + 1
       THEN ArchivoSigue("except", salida, Some("UnicodeDecodeError"), leidas)
       ELSE LET linea_limpia == strip(contenido[leidas + 1] \o <<"\n">>)
                nombre == strip_chars(linea_limpia, {";"})
            IN  ArchivoSigue("for", Append(salida, nombre), None, leidas + 1)

\* the script: except FileNotFoundError
script_except_FileNotFoundError ==
    /\ programa = "script" /\ pcArchivo = "except"
    /\ excepcion = Some("FileNotFoundError")
    /\ ArchivoSigue("fin", Append(salida, <<"Error no se encontro el archivo">>), None, leidas)

\* the script: except Exception as E, whose print formats the unbound name e
script_except_Exception ==
    /\ programa = "script" /\ pcArchivo = "except"
    /\ excepcion # Some("FileNotFoundError")
    /\ ArchivoSigue("fin", salida, Some("NameError"), leidas)

\* leer_lineas_txt: with open(...) as f
leer_lineas_txt_open ==
    /\ programa = "leer_lineas_txt" /\ pcArchivo = "open"
    /\ IF open_py(fs) = None
       THEN ArchivoSigue("readlines", salida, None, leidas)
       ELSE ArchivoSigue("fin", salida, open_py(fs), leidas)

\* leer_lineas_txt: f.readlines(), stripped or as read
leer_lineas_txt_readlines ==
    /\ programa = "leer_lineas_txt" /\ pcArchivo = "readlines"
    /\ IF fallaEn # 0
       THEN ArchivoSigue("fin", salida, Some("UnicodeDecodeError"), leidas)
       ELSE ArchivoSigue("fin",
                [k \in 1..Len(contenido) |->
                    IF quitar THEN strip(contenido[k] \o <<"\n">>)
                    ELSE contenido[k] \o <<"\n">>],
                None, Len(contenido))

NextArchivo ==
    \/ script_open
    \/ script_for
    \/ script_except_FileNotFoundError
    \/ script_except_Exception
    \/ leer_lineas_txt_open
    \/ leer_lineas_txt_readlines

SpecArchivo == InitArchivo /\ [][NextArchivo]_vars

\* the read failed for a reason other than the file not existing
OtroFallo == fs = "denegado" \/ (fs = "legible" /\ fallaEn # 0)

\* C8: a read of a file that does not exist ends reported as "file not
\* found", and a read that fails for any other reason ends reported
\* generically as an unexpected error; the read ends there and the failure
\* is handled as that condition, not as some other error.
C8_FallosReportados ==
    pcArchivo = "fin"
        => /\ (programa = "script" /\ fs = "ausente")
                => (excepcion = None
                    /\ salida = << <<"Error no se encontro el archivo">> >>)
           /\ (programa = "script" /\ OtroFallo)
                => (excepcion = None /\ salida # <<>>
                    /\ salida[Len(salida)] = <<"ocurrio un error inesperado">>)
           /\ (programa = "leer_lineas_txt" /\ fs = "ausente")
                => excepcion = Some("FileNotFoundError")
           /\ (programa = "leer_lineas_txt" /\ OtroFallo)
                => excepcion \in {Some("PermissionError"), Some("UnicodeDecodeError")}

====
